---- MODULE Spec2Model ----
(***************************************************************************)
(* Model of the HVAC part finder (src/main.py): the module-level           *)
(* initializer that builds the Pinecone client, the index handle and the   *)
(* SentenceTransformer model, the Matcher find_matching_parts and the HTTP *)
(* entrypoint query_part_finder.                                           *)
(*                                                                         *)
(* The embedding model and the vector index are external services: their   *)
(* outcome (a value or an exception) is a nondeterministic choice.  A      *)
(* handler blocks in each of the two external calls, so a request is       *)
(* handled in three steps (Begin, EncodeReturn, QueryReturn) and the       *)
(* steps of concurrent requests interleave.                                *)
(*                                                                         *)
(* Scores are fixed-point numbers in units of 10^-5, so 93125 is 0.93125   *)
(* and a score rounded to 4 decimals is a multiple of 10.                  *)
(***************************************************************************)
EXTENDS Integers, Sequences, FiniteSets, TLC

VARIABLES
    initpc,           \* position of the module-level initializer
    pc,               \* global pc: the Pinecone client handle
    index,            \* global index: the index handle
    embedding_model,  \* global embedding_model: the SentenceTransformer handle
    log,              \* lines printed by the initializer
    handlers,         \* per in-flight invocation of query_part_finder: its locals
    last              \* the exchange completed by the latest step (<<>> if none)

vars == <<initpc, pc, index, embedding_model, log, handlers, last>>

ServiceState == <<pc, index, embedding_model>>

(***************************************************************************)
(* Bounds.                                                                 *)
(***************************************************************************)
\* number of invocations of query_part_finder that may be in flight at once
NumHandlers == 2
\* the largest number of matches the index ever returns for one query
MaxMatches == 2

Handlers == 1..NumHandlers

(***************************************************************************)
(* Program constants.                                                      *)
(***************************************************************************)
DefaultTopK == 3

InitFailureMessage == "Service initialization failed. Check server logs."
MissingDescriptionMessage == "Missing 'description' in request body."
SearchErrorPrefix == "An unexpected search error occurred: "

(***************************************************************************)
(* Python values.  A global name is "unbound" before its first             *)
(* assignment, "None" after `= None`, and "handle" when it holds the       *)
(* object a constructor returned.                                          *)
(***************************************************************************)
Unbound == "unbound"
None == "None"
Handle == "handle"

\* bool(x) of a global: None is falsy, a client or model object is truthy
Truthy(x) == x = Handle

(***************************************************************************)
(* Module-level initialization, lines 16-34.  Each step either succeeds or *)
(* raises; the except clause logs the error and assigns None to pc and to  *)
(* embedding_model (and to nothing else).                                  *)
(***************************************************************************)
InitExcept(msg) ==
    /\ log' = Append(log, "FATAL INITIALIZATION ERROR: " \o msg)
    /\ pc' = None
    /\ embedding_model' = None
    /\ initpc' = "done"
    /\ UNCHANGED index

\* lines 17-19: read PINECONE_KEY, raise ValueError when it is not set
ReadKey ==
    /\ initpc = "read_key"
    /\ \E key_set \in BOOLEAN :
          IF key_set
          THEN /\ initpc' = "client"
               /\ UNCHANGED <<pc, index, embedding_model, log>>
          ELSE InitExcept("PINECONE_KEY environment variable not set.")
    /\ UNCHANGED <<handlers, last>>

\* line 21: pc = Pinecone(api_key=...)
MakeClient ==
    /\ initpc = "client"
    /\ \E ok \in BOOLEAN :
          IF ok
          THEN /\ pc' = Handle
               /\ initpc' = "open_index"
               /\ UNCHANGED <<index, embedding_model, log>>
          ELSE InitExcept("Pinecone client construction failed")
    /\ UNCHANGED <<handlers, last>>

\* line 22: index = pc.Index(INDEX_NAME)
OpenIndex ==
    /\ initpc = "open_index"
    /\ \E ok \in BOOLEAN :
          IF ok
          THEN /\ index' = Handle
               /\ initpc' = "load_model"
               /\ UNCHANGED <<pc, embedding_model, log>>
          ELSE InitExcept("opening the index failed")
    /\ UNCHANGED <<handlers, last>>

\* lines 26-28: embedding_model = SentenceTransformer(EMBEDDING_MODEL_NAME)
LoadModel ==
    /\ initpc = "load_model"
    /\ \E ok \in BOOLEAN :
          IF ok
          THEN /\ embedding_model' = Handle
               /\ log' = Append(log, "Initialization complete: Pinecone and SentenceTransformer loaded.")
               /\ initpc' = "done"
               /\ UNCHANGED <<pc, index>>
          ELSE InitExcept("loading the embedding model failed")
    /\ UNCHANGED <<handlers, last>>

(***************************************************************************)
(* Requests.  request.get_json(silent=True) gives None for a missing or    *)
(* malformed body and the parsed JSON value otherwise.  A JSON value is    *)
(* [t, v]: t its type, v its content (an array is a sequence, an object a  *)
(* function from its keys).                                                *)
(***************************************************************************)
JNull == [t |-> "null", v |-> 0]

\* the JSON objects of the model: without and with 'description' (empty or
\* not), without and with 'top_k' (positive, zero, negative)
Objects ==
    {[t |-> "obj", v |-> <<>>],
     [t |-> "obj", v |-> [top_k |-> 2]],
     [t |-> "obj", v |-> [description |-> ""]],
     [t |-> "obj", v |-> [description |-> "blower motor"]],
     [t |-> "obj", v |-> [description |-> "blower motor", top_k |-> 2]],
     [t |-> "obj", v |-> [description |-> "blower motor", top_k |-> 1]],
     [t |-> "obj", v |-> [description |-> "", top_k |-> 0]],
     [t |-> "obj", v |-> [description |-> "blower motor", top_k |-> -1]]}

NonObjects ==
    {JNull,
     [t |-> "num", v |-> 0], [t |-> "num", v |-> 5],
     [t |-> "str", v |-> ""], [t |-> "str", v |-> "fan"],
     [t |-> "str", v |-> "description"],
     [t |-> "arr", v |-> <<>>], [t |-> "arr", v |-> <<"fan">>],
     [t |-> "arr", v |-> <<"description">>]}

Requests ==
    {[body |-> "missing", json |-> JNull], [body |-> "malformed", json |-> JNull]}
    \cup {[body |-> "json", json |-> j] : j \in Objects \cup NonObjects}

\* line 85: request.get_json(silent=True)
get_json(request) == IF request.body = "json" THEN request.json ELSE JNull

\* bool(j) of a parsed JSON value
JTruthy(j) ==
    CASE j.t = "null" -> FALSE
      [] j.t = "num"  -> j.v # 0
      [] j.t = "str"  -> j.v # ""
      [] j.t = "arr"  -> Len(j.v) > 0
      [] j.t = "obj"  -> DOMAIN j.v # {}

\* the JSON strings of the model that have "description" as a substring
HasSubstringDescription(s) == s = "description"

\* `'description' in j` raises TypeError for a value that is no container
InRaises(j) == j.t \in {"num", "null"}

\* `'description' in j`: substring of a str, element of a list, key of a dict
InDescription(j) ==
    CASE j.t = "str" -> HasSubstringDescription(j.v)
      [] j.t = "arr" -> \E i \in 1..Len(j.v) : j.v[i] = "description"
      [] j.t = "obj" -> "description" \in DOMAIN j.v
      [] OTHER       -> FALSE

\* `j['description']` raises TypeError unless j is a dict
SubscriptRaises(j) == j.t # "obj"

\* `request_json.get('top_k') or 3`: the default also replaces a supplied 0
TopKOrDefault(request_json) ==
    IF "top_k" \in DOMAIN request_json.v /\ request_json.v.top_k # 0
    THEN request_json.v.top_k
    ELSE DefaultTopK

\* top_k is never read from the request: the default is always used
TopKIgnored(request_json) == DefaultTopK

\* line 90: request_json.get('top_k', 3)
TopKOf(request_json) ==
    IF "top_k" \in DOMAIN request_json.v
    THEN request_json.v.top_k
    ELSE DefaultTopK

(***************************************************************************)
(* Responses.  query_part_finder returns the pair (jsonify(body), status): *)
(* the headers of the response are the ones jsonify sets.  The dict        *)
(* `headers` of lines 76-78 is built and never passed to a return.         *)
(***************************************************************************)
\* lines 76-78: the local dict `headers`; no return statement mentions it
headers == [h \in {"Access-Control-Allow-Origin"} |-> "*"]

\* the headers of a response made by jsonify
JsonifyHeaders == [h \in {"Content-Type"} |-> "application/json"]

Response(body, status) == [status |-> status, body |-> body, headers |-> JsonifyHeaders]

\* an exception that leaves query_part_finder
Raised(exc) == [raised |-> exc]

IsResponse(o) == "status" \in DOMAIN o

\* line 82
InitFailureResponse == Response([error |-> InitFailureMessage], 500)

\* line 87
BadRequestResponse == Response([error |-> MissingDescriptionMessage], 400)

\* lines 97-102
SuccessResponse(description, status, matches) ==
    Response([query_description |-> description, status |-> status, matches |-> matches], 200)

\* the search error answered as a success with no matches
SearchErrorSwallowed(msg) ==
    Response([query_description |-> "", status |-> msg, matches |-> <<>>], 200)

\* lines 104-106
SearchErrorResponse(msg) == Response([error |-> SearchErrorPrefix \o msg], 500)

(***************************************************************************)
(* The index (external).  A match is [id, score, metadata]; metadata is a  *)
(* function from its keys.  P-300 was upserted without a description.      *)
(***************************************************************************)
Candidates ==
    {[id |-> "P-100", score |-> 93125, metadata |-> [description |-> "Blower motor 1/2 HP"]],
     [id |-> "P-200", score |-> 87126, metadata |-> [description |-> "Blower wheel"]],
     [id |-> "P-300", score |-> 50000, metadata |-> [category |-> "misc"]]}

Min(a, b) == IF a < b THEN a ELSE b

\* what index.query(top_k=k) may return: at most k matches, in any order
IndexResults(k) ==
    UNION {[1..n -> Candidates] : n \in 0..Min(IF k > 0 THEN k ELSE 0, MaxMatches)}

EncodeError == "encode failed"
QueryError == "index unavailable"

(***************************************************************************)
(* find_matching_parts, lines 56-65.                                       *)
(***************************************************************************)
\* line 62: round(score, 4), ties to even
RoundScore(score) ==
    LET q == score \div 10
        r == score % 10
    IN  IF r < 5 THEN 10 * q
        ELSE IF r > 5 THEN 10 * (q + 1)
        ELSE IF q % 2 = 0 THEN 10 * q ELSE 10 * (q + 1)

\* lines 59-63: one dict per match
MatchResult(match) ==
    [part_number |-> match.id,
     description |-> match.metadata.description,
     score       |-> RoundScore(match.score)]

\* line 61 raises KeyError('description') for a match without that metadata
ProcessRaises(matches) ==
    \E i \in 1..Len(matches) : "description" \notin DOMAIN matches[i].metadata

KeyErrorMessage == "'description'"

\* the loop inserting each result at the front
ProcessMatchesReversed(matches) ==
    [i \in 1..Len(matches) |-> MatchResult(matches[Len(matches) + 1 - i])]

\* lines 57-63: the loop appends one result per match, in order
ProcessMatches(matches) ==
    [i \in 1..Len(matches) |-> MatchResult(matches[i])]

(***************************************************************************)
(* query_part_finder, lines 69-106.                                        *)
(***************************************************************************)
IdleHandler ==
    [at |-> "idle", request |-> [body |-> "missing", json |-> JNull],
     description |-> "", top_k |-> 0, calls |-> <<>>]

\* the guard on the index handle instead of the two globals of the source
DegradedByIndex == ~Truthy(index)

\* lines 40 and 81: not embedding_model or not pc
Degraded == ~Truthy(embedding_model) \/ ~Truthy(pc)

\* the invocation in slot r ends: its exchange becomes the latest one
Complete(r, request, calls, returned, raised, fmp, outcome) ==
    /\ handlers' = [handlers EXCEPT ![r] = IdleHandler]
    /\ last' = <<[request  |-> request,
                  calls    |-> calls,
                  returned |-> returned,
                  raised   |-> raised,
                  fmp      |-> fmp,
                  outcome  |-> outcome]>>

\* lines 76-94 and 40-47: from the arrival of a request to the call of encode
BeginStep(r) ==
    /\ initpc = "done"
    /\ handlers[r].at = "idle"
    /\ \E request \in Requests :
          LET request_json == get_json(request)
              Done(outcome) == Complete(r, request, <<>>, <<>>, <<>>, <<>>, outcome)
          IN  IF Degraded THEN Done(InitFailureResponse)
              ELSE IF ~JTruthy(request_json) THEN Done(BadRequestResponse)
              ELSE IF InRaises(request_json) THEN Done(Raised("TypeError"))
              ELSE IF ~InDescription(request_json) THEN Done(BadRequestResponse)
              ELSE IF SubscriptRaises(request_json) THEN Done(Raised("TypeError"))
              ELSE LET description == request_json.v.description
                       top_k == TopKOf(request_json)
                   IN  IF Degraded
                       THEN Complete(r, request, <<>>, <<>>, <<>>,
                                     <<[status |-> "Service not initialized.", matches |-> <<>>]>>,
                                     SuccessResponse(description, "Service not initialized.", <<>>))
                       ELSE /\ handlers' = [handlers EXCEPT ![r] =
                                   [at |-> "encoding", request |-> request,
                                    description |-> description, top_k |-> top_k,
                                    calls |-> <<[fn |-> "encode", sentences |-> <<description>>]>>]]
                            /\ UNCHANGED last

\* a degraded process runs the initialization again when a request arrives
BeginRetrying(r) ==
    /\ BeginStep(r)
    /\ IF Degraded
       THEN /\ pc' = Handle
            /\ index' = Handle
            /\ embedding_model' = Handle
            /\ UNCHANGED <<initpc, log>>
       ELSE UNCHANGED <<initpc, pc, index, embedding_model, log>>

\* a request arrives; no global is assigned
Begin(r) ==
    /\ BeginStep(r)
    /\ UNCHANGED <<initpc, pc, index, embedding_model, log>>

\* lines 44-54: encode returns or raises; on return index.query is called
EncodeReturn(r) ==
    LET h == handlers[r] IN
    /\ h.at = "encoding"
    /\ \E ok \in BOOLEAN :
          IF ok
          THEN /\ handlers' = [handlers EXCEPT ![r] =
                      [h EXCEPT !.at = "querying",
                                !.calls = Append(h.calls,
                                    [fn |-> "query", top_k |-> h.top_k, include_metadata |-> TRUE])]]
               /\ UNCHANGED last
          ELSE Complete(r, h.request, h.calls, <<>>, <<EncodeError>>, <<>>,
                        SearchErrorResponse(EncodeError))
    /\ UNCHANGED <<initpc, pc, index, embedding_model, log>>

\* lines 50-65 and 94-106: index.query returns or raises; the matches are
\* reshaped and the response is built
QueryReturn(r) ==
    LET h == handlers[r] IN
    /\ h.at = "querying"
    /\ \/ Complete(r, h.request, h.calls, <<>>, <<QueryError>>, <<>>,
                   SearchErrorResponse(QueryError))
       \/ \E returned \in IndexResults(h.top_k) :
             IF ProcessRaises(returned)
             THEN Complete(r, h.request, h.calls, returned, <<KeyErrorMessage>>, <<>>,
                           SearchErrorResponse(KeyErrorMessage))
             ELSE Complete(r, h.request, h.calls, returned, <<>>,
                           <<[status |-> "Success", matches |-> ProcessMatches(returned)]>>,
                           SuccessResponse(h.description, "Success", ProcessMatches(returned)))
    /\ UNCHANGED <<initpc, pc, index, embedding_model, log>>

(***************************************************************************)
(* The specification.                                                      *)
(***************************************************************************)
Init ==
    /\ initpc = "read_key"
    /\ pc = Unbound
    /\ index = Unbound
    /\ embedding_model = Unbound
    /\ log = <<>>
    /\ handlers = [r \in Handlers |-> IdleHandler]
    /\ last = <<>>

Next ==
    \/ ReadKey
    \/ MakeClient
    \/ OpenIndex
    \/ LoadModel
    \/ \E r \in Handlers : Begin(r)
    \/ \E r \in Handlers : EncodeReturn(r)
    \/ \E r \in Handlers : QueryReturn(r)

Spec == Init /\ [][Next]_vars

(***************************************************************************)
(* Vocabulary of the properties.                                           *)
(***************************************************************************)
Exchanged == last # <<>>
Ex == last[1]

\* the initializer ended in its except clause
InitFailed ==
    /\ initpc = "done"
    /\ \E i \in 1..Len(log) :
          log[i] # "Initialization complete: Pinecone and SentenceTransformer loaded."

Present(x) == x = Handle
Absent(x) == x \in {Unbound, None}

Healthy == initpc = "done" /\ Present(pc) /\ Present(index) /\ Present(embedding_model)

IsObject(request) == request.body = "json" /\ request.json.t = "obj"

\* the body is a JSON object with a 'description' field
HasDescriptionField(request) ==
    IsObject(request) /\ "description" \in DOMAIN request.json.v

HasTopKField(request) ==
    IsObject(request) /\ "top_k" \in DOMAIN request.json.v

\* a request as the interface describes it: a description and, optionally,
\* a positive top_k
WellFormed(request) ==
    /\ HasDescriptionField(request)
    /\ HasTopKField(request) => request.json.v.top_k > 0

NonEmptyDescription(request) == request.json.v.description # ""

\* the result count the request asks for
RequestedTopK(request) ==
    IF HasTopKField(request) THEN request.json.v.top_k ELSE 3

ErrorResponse(o, status, message) ==
    /\ IsResponse(o)
    /\ o.status = status
    /\ o.body = [error |-> message]

MostSimilarFirst(matches) ==
    \A i \in 1..Len(matches) : \A j \in 1..Len(matches) :
        i < j => matches[i].score >= matches[j].score

Abs(n) == IF n < 0 THEN -n ELSE n

\* r is s rounded to 4 decimals: a multiple of 10^-4 nearest to s
IsRounded(r, s) == r % 10 = 0 /\ Abs(r - s) <= 5

QueryCalls(calls) == {i \in 1..Len(calls) : calls[i].fn = "query"}

(***************************************************************************)
(* C1: when initialization failed, every request, whatever its body, is    *)
(* answered 500 with the initialization-failure body, and neither the      *)
(* embedding model nor the index is called.                                *)
(***************************************************************************)
C1_DegradedAlways500 ==
    InitFailed =>
        /\ \A r \in Handlers : handlers[r].at = "idle"
        /\ Exchanged =>
              /\ ErrorResponse(Ex.outcome, 500, "Service initialization failed. Check server logs.")
              /\ Ex.calls = <<>>

\* a well-formed request was answered by a process whose initialization failed
C1_Witness ==
    /\ InitFailed
    /\ Exchanged
    /\ WellFormed(Ex.request)
    /\ Ex.outcome.status = 500

(***************************************************************************)
(* C2 (as claimed): with a healthy ServiceState, every request without a   *)
(* JSON body or whose JSON body has no 'description' field is answered 400 *)
(* with the missing-description body, before any external call.            *)
(***************************************************************************)
C2_Claimed ==
    (Healthy /\ Exchanged /\ ~HasDescriptionField(Ex.request)) =>
        /\ ErrorResponse(Ex.outcome, 400, "Missing 'description' in request body.")
        /\ Ex.calls = <<>>

(***************************************************************************)
(* C3 (as claimed): every invocation ends with a response whose body has a *)
(* 'matches' array or an 'error' string; no exception leaves               *)
(* query_part_finder.                                                      *)
(***************************************************************************)
C3_Claimed ==
    Exchanged =>
        /\ IsResponse(Ex.outcome)
        /\ \/ "matches" \in DOMAIN Ex.outcome.body
           \/ "error" \in DOMAIN Ex.outcome.body

(***************************************************************************)
(* C4 (as claimed): every response carries Access-Control-Allow-Origin: *. *)
(***************************************************************************)
C4_Claimed ==
    (Exchanged /\ IsResponse(Ex.outcome)) =>
        /\ "Access-Control-Allow-Origin" \in DOMAIN Ex.outcome.headers
        /\ Ex.outcome.headers["Access-Control-Allow-Origin"] = "*"

(***************************************************************************)
(* C5 (as claimed): once the initializer has run, the three handles are    *)
(* all present or all absent.                                              *)
(***************************************************************************)
C5_Claimed ==
    initpc = "done" =>
        \/ Present(pc) /\ Present(index) /\ Present(embedding_model)
        \/ Absent(pc) /\ Absent(index) /\ Absent(embedding_model)

(***************************************************************************)
(* C6: with a healthy ServiceState, an exception raised inside             *)
(* find_matching_parts (by encode, by the index query or while reshaping)  *)
(* is answered 500 with "An unexpected search error occurred: <message>",  *)
(* and not 200.                                                            *)
(***************************************************************************)
C6_SearchError500 ==
    (Healthy /\ Exchanged /\ HasDescriptionField(Ex.request) /\ Ex.raised # <<>>) =>
        ErrorResponse(Ex.outcome, 500,
                      "An unexpected search error occurred: " \o Ex.raised[1])

\* the reshaping of the returned matches raised KeyError
C6_Witness ==
    /\ Healthy
    /\ Exchanged
    /\ WellFormed(Ex.request)
    /\ Ex.raised = <<"'description'">>
    /\ Len(Ex.returned) = 2
    /\ Ex.outcome.status = 500

(***************************************************************************)
(* C7 (as claimed): with a healthy ServiceState, every well-formed request *)
(* with a non-empty description is answered 200 with query_description     *)
(* equal to the description and at most top_k matches.                     *)
(***************************************************************************)
C7_Claimed ==
    (Healthy /\ Exchanged /\ WellFormed(Ex.request) /\ NonEmptyDescription(Ex.request)) =>
        /\ IsResponse(Ex.outcome)
        /\ Ex.outcome.status = 200
        /\ Ex.outcome.body.query_description = Ex.request.json.v.description
        /\ Len(Ex.outcome.body.matches) <= RequestedTopK(Ex.request)

(***************************************************************************)
(* C7 (amended): the same, for the requests during which no exception is   *)
(* raised inside find_matching_parts; the others are answered 500.         *)
(***************************************************************************)
C7_SuccessUnlessRaised ==
    (Healthy /\ Exchanged /\ WellFormed(Ex.request) /\ NonEmptyDescription(Ex.request)) =>
        /\ IsResponse(Ex.outcome)
        /\ IF Ex.raised = <<>>
           THEN /\ Ex.outcome.status = 200
                /\ Ex.outcome.body.query_description = Ex.request.json.v.description
                /\ Len(Ex.outcome.body.matches) <= RequestedTopK(Ex.request)
           ELSE Ex.outcome.status = 500

\* {"description": "blower motor", "top_k": 2} answered with two matches
C7_Witness ==
    /\ Healthy
    /\ Exchanged
    /\ Ex.request.json = [t |-> "obj", v |-> [description |-> "blower motor", top_k |-> 2]]
    /\ IsResponse(Ex.outcome)
    /\ Ex.outcome.status = 200
    /\ Len(Ex.outcome.body.matches) = 2

(***************************************************************************)
(* C8: a "Success" result has one entry per match the index returned, in   *)
(* the same order, with the match's id, metadata description and rounded   *)
(* score; so the scores are non-increasing when the index returned the     *)
(* most similar first.                                                     *)
(***************************************************************************)
C8_MatchesVerbatim ==
    (Exchanged /\ Ex.fmp # <<>> /\ Ex.fmp[1].status = "Success") =>
        LET matches == Ex.fmp[1].matches
            returned == Ex.returned
        IN  /\ Len(matches) = Len(returned)
            /\ \A i \in 1..Len(returned) :
                  /\ matches[i].part_number = returned[i].id
                  /\ matches[i].description = returned[i].metadata.description
                  /\ IsRounded(matches[i].score, returned[i].score)
            /\ MostSimilarFirst(returned) => MostSimilarFirst(matches)
            /\ Ex.outcome.body.matches = matches

\* two different matches, most similar first, were returned and reshaped
C8_Witness ==
    /\ Exchanged
    /\ Ex.fmp # <<>>
    /\ Ex.fmp[1].status = "Success"
    /\ Len(Ex.returned) = 2
    /\ Ex.returned[1].score > Ex.returned[2].score
    /\ Ex.fmp[1].matches[1].score # Ex.returned[1].score

(***************************************************************************)
(* C9: the top_k given to find_matching_parts and to the index query is 3  *)
(* when the body has no 'top_k' key and the supplied value, unchanged      *)
(* (zero and negative included), when it has one.                          *)
(***************************************************************************)
C9_Expected(request, top_k) ==
    IF "top_k" \in DOMAIN request.json.v
    THEN top_k = request.json.v.top_k
    ELSE top_k = 3

C9_TopKPassThrough ==
    /\ \A r \in Handlers :
          handlers[r].at # "idle" =>
              /\ C9_Expected(handlers[r].request, handlers[r].top_k)
              /\ \A i \in QueryCalls(handlers[r].calls) :
                    C9_Expected(handlers[r].request, handlers[r].calls[i].top_k)
    /\ Exchanged =>
          \A i \in QueryCalls(Ex.calls) : C9_Expected(Ex.request, Ex.calls[i].top_k)

\* the index was queried with the default in one invocation and with a
\* supplied 0 in another
C9_Witness ==
    /\ Exchanged
    /\ ~HasTopKField(Ex.request)
    /\ \E i \in QueryCalls(Ex.calls) : Ex.calls[i].top_k = 3
    /\ \E r \in Handlers :
          /\ handlers[r].at = "querying"
          /\ HasTopKField(handlers[r].request)
          /\ handlers[r].request.json.v.top_k = 0
          /\ handlers[r].calls[2].top_k = 0

(***************************************************************************)
(* C10: once the initializer has run, no step changes the client, index or *)
(* model handle, and the initializer does not run again.                   *)
(***************************************************************************)
C10_ServiceStateFrozen ==
    [][initpc = "done" =>
          /\ initpc' = "done"
          /\ pc' = pc
          /\ index' = index
          /\ embedding_model' = embedding_model]_vars

\* a healthy process has answered a search error while two other requests are
\* in flight
C10_Witness ==
    /\ Healthy
    /\ Exchanged
    /\ IsResponse(Ex.outcome)
    /\ Ex.outcome.status = 500
    /\ handlers[1].at = "encoding"
    /\ handlers[2].at = "querying"

====
